---- MODULE Spec2Model ----
(***************************************************************************)
(* Model of scripts/loader.py: the shellcode loader's main(), the path     *)
(* selection (needs_injection / execute_shellcode_windows) and the two     *)
(* execution protocols (execute_local, execute_injected).  Every kernel32  *)
(* call is one step; its result is chosen by the environment.              *)
(***************************************************************************)
EXTENDS Integers, Sequences, FiniteSets, TLC

(* ------------------------------ bounds -------------------------------- *)
\* longest shellcode file, in bytes
MaxLen == 2
\* addresses the allocators may return are 1..MaxAddr; 0 is NULL
MaxAddr == 2
\* invocations of execute_shellcode_windows in the repeated specification
MaxRuns == 2

(* ------------------------- program constants -------------------------- *)
CREATE_SUSPENDED == 4
CREATE_NO_WINDOW == 134217728

\* the creation flag `f` (one bit) is set in `flags`
HasFlag(flags, f) == (flags \div f) % 2 = 1

(* ---------------------------- environment ----------------------------- *)
\* exit statuses a thread may end with (DWORD values; 259 is STILL_ACTIVE)
ThreadExitCodes == {0, 42, 259}

(* ------------------------------ tables -------------------------------- *)
ArchNames == {"x86", "i386", "amd64", "x86_64", "x64", "arm64", "aarch64"}

ARCH_MAP ==
  [a \in ArchNames |->
     IF a \in {"x86", "i386"} THEN [bits |-> 32]
     ELSE [bits |-> 64]]

SysWOW64_cmd == "C:\\Windows\\SysWOW64\\cmd.exe"
SysWOW64_conhost == "C:\\Windows\\SysWOW64\\conhost.exe"
System32_cmd == "C:\\Windows\\System32\\cmd.exe"
System32_conhost == "C:\\Windows\\System32\\conhost.exe"

HOST_PROCESSES ==
  [a \in {"x86", "amd64", "arm64"} |->
     IF a = "x86" THEN <<SysWOW64_cmd, SysWOW64_conhost>>
     ELSE <<System32_cmd, System32_conhost>>]

(* ------------------------- environment inputs ------------------------- *)
\* platform.system()
Systems == {"Windows", "Linux"}
\* platform.machine()
Machines == {"AMD64", "ARM64", "x86"}
\* args.arch: the store_const values and one alias the --arch choices add
Archs == {"x86", "amd64", "arm64", "x64"}

\* str.lower() on the strings the model uses
lower(s) ==
  CASE s = "Windows" -> "windows"
    [] s = "Linux" -> "linux"
    [] s = "AMD64" -> "amd64"
    [] s = "ARM64" -> "arm64"
    [] OTHER -> s

(* --------------------------- pure functions --------------------------- *)
get_os_arch(m) ==
  LET machine_ == lower(m) IN
    IF machine_ \in {"amd64", "x86_64"} THEN "amd64"
    ELSE IF machine_ \in {"arm64", "aarch64"} THEN "arm64"
    ELSE IF machine_ \in {"i386", "i686", "x86"} THEN "x86"
    ELSE machine_

normalize_arch(a) ==
  LET arch_ == lower(a) IN
    IF arch_ \in {"x86", "i386"} THEN "x86"
    ELSE IF arch_ \in {"amd64", "x64", "x86_64"} THEN "amd64"
    ELSE IF arch_ \in {"arm64", "aarch64"} THEN "arm64"
    ELSE arch_

\* ARCH_MAP.get(target, {}).get('bits', 64)
target_bits(a) ==
  LET target == normalize_arch(a) IN
    IF target \in DOMAIN ARCH_MAP THEN ARCH_MAP[target].bits ELSE 64

\* the comparison of line 128 the wrong way round
needs_injection_inverted(target_arch, py_bits) == py_bits = target_bits(target_arch)

needs_injection(target_arch, py_bits) == py_bits # target_bits(target_arch)

\* the loop keeps going and the last existing candidate wins
FirstExisting_Last(candidates, exists) ==
  LET hits == {i \in 1..Len(candidates) : candidates[i] \in exists} IN
    IF hits = {} THEN ""
    ELSE candidates[CHOOSE i \in hits : \A j \in hits : j <= i]

RECURSIVE FirstExisting(_, _)
\* the candidates loop of find_host_process: first path that exists, or "" if none
FirstExisting(candidates, exists) ==
  IF candidates = <<>> THEN ""
  ELSE IF Head(candidates) \in exists THEN Head(candidates)
  ELSE FirstExisting(Tail(candidates), exists)

\* HOST_PROCESSES.get(target, [])
CandidateList(target_arch) ==
  LET target == normalize_arch(target_arch) IN
    IF target \in DOMAIN HOST_PROCESSES THEN HOST_PROCESSES[target] ELSE <<>>

\* the paths os.path.exists is asked about
Candidates(target_arch) ==
  {CandidateList(target_arch)[i] : i \in 1..Len(CandidateList(target_arch))}

\* find_host_process: [err |-> exception raised or "none", path |-> result]
find_host_process(target_arch, m, exists) ==
  LET target == normalize_arch(target_arch)
      os_arch == get_os_arch(m)
      candidates == CandidateList(target_arch)
      found == FirstExisting(candidates, exists)
  IN  IF os_arch = "x86" /\ target # "x86"
        THEN [err |-> "ValueError", path |-> ""]
      ELSE IF found # ""
        THEN [err |-> "none", path |-> found]
      ELSE [err |-> "FileNotFoundError", path |-> ""]

(* ------------------------------- state -------------------------------- *)
VARIABLES
  system,         \* platform.system()
  machine,        \* platform.machine()
  python_bits,    \* struct.calcsize("P") * 8
  arch,           \* args.arch
  file_exists,    \* os.path.exists(args.shellcode)
  file_len,       \* length of the file's content
  pc,             \* position of the control thread
  shellcode_size, \* len(shellcode), 0 before load
  path,           \* "none", "local" or "injected": the function dispatched to
  selections,     \* times needs_injection was evaluated in this run
  started,        \* the execution paths entered in this run
  existing,       \* the candidate host executables find_host_process saw on disk
  host_path,      \* result of find_host_process
  ptr,            \* execute_local: VirtualAlloc result
  remote_mem,     \* execute_injected: VirtualAllocEx result
  written,        \* execute_injected: written.value
  copy_dest,      \* destination address of the image copy, 0 before it
  start_addr,     \* start address given to CreateThread / CreateRemoteThread
  thread_state,   \* "none", "running", "done", "killed"
  thread_status,  \* the exit status the thread ended with
  primary_thread, \* "none", "suspended", "running", "killed": pi.hThread's thread
  exit_code,      \* exit_code.value
  exc,            \* pending exception, "none" if none
  failed,         \* the steps that failed in this run
  trace,          \* kernel32 calls of this run, in order
  handles,        \* handles open in the loader process
  local_regions,  \* live regions allocated in the loader process
  remote_regions, \* live regions allocated in the spawned process
  proc_state,     \* "none", "suspended", "terminated": the spawned process
  live_procs,     \* spawned processes not terminated
  release_failed, \* some TerminateProcess or CloseHandle call has failed
  exit_status,    \* the loader's process exit status, -1 while running
  runs            \* invocations of execute_shellcode_windows so far

env == <<system, machine, python_bits, arch, file_exists, file_len>>

locals == <<existing, host_path, ptr, remote_mem, written, copy_dest, start_addr,
            exit_code>>

threads == <<thread_state, thread_status, primary_thread>>

resources == <<handles, local_regions, remote_regions, proc_state, live_procs,
               release_failed>>

sel == <<path, selections, started>>

vars == <<env, pc, shellcode_size, sel, locals, threads, exc, failed, trace,
          resources, exit_status, runs>>

Init ==
  /\ system \in Systems
  /\ machine \in Machines
  /\ python_bits \in {32, 64}
  \* a 64-bit interpreter does not run on a 32-bit OS
  /\ ~(get_os_arch(machine) = "x86" /\ python_bits = 64)
  /\ arch \in Archs
  /\ file_exists \in BOOLEAN
  /\ file_len \in 0..MaxLen
  /\ (~file_exists => file_len = 0)
  /\ pc = "load"
  /\ shellcode_size = 0
  /\ path = "none"
  /\ selections = 0
  /\ started = {}
  /\ existing = {}
  /\ host_path = ""
  /\ ptr = 0
  /\ remote_mem = 0
  /\ written = 0
  /\ copy_dest = 0
  /\ start_addr = 0
  /\ thread_state = "none"
  /\ thread_status = 0
  /\ primary_thread = "none"
  /\ exit_code = 0
  /\ exc = "none"
  /\ failed = {}
  /\ trace = <<>>
  /\ handles = {}
  /\ local_regions = 0
  /\ remote_regions = 0
  /\ proc_state = "none"
  /\ live_procs = 0
  /\ release_failed = FALSE
  /\ exit_status = -1
  /\ runs = 0

\* a step raises: record it and go where the exception is handled
Raise(step, e, target) ==
  /\ failed' = failed \cup {step}
  /\ exc' = e
  /\ pc' = target

(* ------------------------------- main --------------------------------- *)
\* load_shellcode and the except clause of main: a missing file raises
\* FileNotFoundError, a content length in `rejected` raises ValueError
LoadShellcodeRejecting(rejected) ==
  /\ pc = "load"
  /\ IF ~file_exists
       THEN /\ Raise("load_shellcode", "FileNotFoundError", "done")
            /\ exit_status' = 1
            /\ UNCHANGED shellcode_size
     ELSE IF file_len \in rejected
       THEN /\ Raise("load_shellcode", "ValueError", "done")
            /\ exit_status' = 1
            /\ UNCHANGED shellcode_size
     ELSE /\ shellcode_size' = file_len
          /\ pc' = "platform"
          /\ UNCHANGED <<exit_status, exc, failed>>
  /\ UNCHANGED <<env, sel, locals, threads, trace, resources, runs>>

\* the length test of line 157 is missing
LoadShellcode_AcceptEmpty == LoadShellcodeRejecting({})

\* main, lines 409-418, with load_shellcode, lines 149-160: len(shellcode) == 0
\* is rejected
LoadShellcode == LoadShellcodeRejecting({0})

\* the platform test accepts every host but Linux
PlatformCheck_Linux ==
  /\ pc = "platform"
  /\ IF lower(system) # "linux"
       THEN /\ Raise("platform", "none", "done")
            /\ exit_status' = 1
     ELSE /\ pc' = "select"
          /\ UNCHANGED <<exit_status, exc, failed>>
  /\ UNCHANGED <<env, shellcode_size, sel, locals, threads, trace, resources, runs>>

\* main, lines 420-425
PlatformCheck ==
  /\ pc = "platform"
  /\ IF lower(system) # "windows"
       THEN /\ Raise("platform", "none", "done")
            /\ exit_status' = 1
     ELSE /\ pc' = "select"
          /\ UNCHANGED <<exit_status, exc, failed>>
  /\ UNCHANGED <<env, shellcode_size, sel, locals, threads, trace, resources, runs>>

\* execute_shellcode_windows, lines 362-371
Select ==
  /\ pc = "select"
  /\ runs' = runs + 1
  /\ selections' = selections + 1
  /\ IF needs_injection(arch, python_bits)
       THEN /\ path' = "injected"
            /\ started' = started \cup {"injected"}
            /\ pc' = "inj_find"
       ELSE /\ path' = "local"
            /\ started' = started \cup {"local"}
            /\ pc' = "loc_alloc"
  /\ UNCHANGED <<env, shellcode_size, locals, threads, exc, failed, trace,
                 resources, exit_status>>

\* append a kernel32 call to the run's trace
Call(name) == trace' = Append(trace, name)

\* the created thread ends on its own, with some exit status
ThreadFinish ==
  /\ thread_state = "running"
  \* once the status is collected nothing the loader does reads the thread
  /\ pc \in {"loc_wait", "loc_collect", "inj_wait", "inj_collect"}
  /\ thread_state' = "done"
  /\ \E s \in ThreadExitCodes : thread_status' = s
  /\ UNCHANGED <<env, pc, shellcode_size, sel, locals, primary_thread, exc, failed,
                 trace, resources, exit_status, runs>>

\* GetExitCodeThread's output for the thread as it is now
CollectedStatus == IF thread_state = "done" THEN thread_status ELSE 259

(* --------------------------- execute_local ---------------------------- *)
\* lines 242-245: VirtualAlloc; a NULL result raises OSError
VirtualAlloc ==
  /\ pc = "loc_alloc"
  /\ Call("VirtualAlloc")
  /\ \E p \in 0..MaxAddr :
       /\ ptr' = p
       /\ IF p = 0
            THEN /\ Raise("VirtualAlloc", "OSError", "raised")
                 /\ UNCHANGED local_regions
            ELSE /\ local_regions' = local_regions + 1
                 /\ pc' = "loc_copy"
                 /\ UNCHANGED <<exc, failed>>
  /\ UNCHANGED <<env, shellcode_size, sel, existing, host_path, remote_mem, written,
                 copy_dest, start_addr, exit_code, threads, handles, remote_regions,
                 proc_state, live_procs, release_failed, exit_status, runs>>

\* line 250: RtlMoveMemory(ptr, shellcode, shellcode_size) returns nothing
RtlMoveMemory ==
  /\ pc = "loc_copy"
  /\ Call("RtlMoveMemory")
  /\ copy_dest' = ptr
  /\ pc' = "loc_thread"
  /\ UNCHANGED <<env, shellcode_size, sel, existing, host_path, ptr, remote_mem,
                 written, start_addr, exit_code, threads, exc, failed, resources,
                 exit_status, runs>>

\* CreateThread(None, 0, lpStartAddress, None, 0, None); a NULL handle raises
\* OSError.  No call of execute_local releases the region VirtualAlloc returned.
CreateThreadAt(lpStartAddress) ==
  /\ pc = "loc_thread"
  /\ Call("CreateThread")
  /\ \E ok \in BOOLEAN :
       IF ok
         THEN /\ handles' = handles \cup {"thread"}
              /\ thread_state' = "running"
              /\ start_addr' = lpStartAddress
              /\ pc' = "loc_wait"
              /\ UNCHANGED <<exc, failed>>
         ELSE /\ Raise("CreateThread", "OSError", "raised")
              /\ UNCHANGED <<handles, thread_state, start_addr>>
  /\ UNCHANGED <<env, shellcode_size, sel, existing, host_path, ptr, remote_mem, written,
                 copy_dest, exit_code, thread_status, primary_thread, local_regions,
                 remote_regions, proc_state, live_procs, release_failed,
                 exit_status, runs>>

\* the thread is given no start address
CreateThread_AtNull == CreateThreadAt(0)

\* lines 253-256: the thread starts at ptr
CreateThread == CreateThreadAt(ptr)

\* WaitForSingleObject(h, INFINITE): returns once the thread has ended, or at
\* once with WAIT_FAILED; the caller does not look at the result
WaitForSingleObject(here, next) ==
  /\ pc = here
  /\ Call("WaitForSingleObject")
  /\ \/ /\ thread_state \in {"done", "killed"}
        /\ UNCHANGED failed
     \/ failed' = failed \cup {"WaitForSingleObject"}
  /\ pc' = next
  /\ UNCHANGED <<env, shellcode_size, sel, locals, threads, exc, resources,
                 exit_status, runs>>

\* GetExitCodeThread(h, byref(exit_code)): fills exit_code on success and
\* leaves the zero-initialised DWORD on failure; the result is not looked at
GetExitCodeThread(here, next) ==
  /\ pc = here
  /\ Call("GetExitCodeThread")
  /\ \E ok \in BOOLEAN :
       IF ok
         THEN /\ exit_code' = CollectedStatus
              /\ UNCHANGED failed
         ELSE /\ exit_code' = 0
              /\ failed' = failed \cup {"GetExitCodeThread"}
  /\ pc' = next
  /\ UNCHANGED <<env, shellcode_size, sel, existing, host_path, ptr, remote_mem, written,
                 copy_dest, start_addr, threads, exc, resources, exit_status, runs>>

\* CloseHandle(h): the result is not looked at
CloseHandle(here, h, next) ==
  /\ pc = here
  /\ Call("CloseHandle(" \o h \o ")")
  /\ \E ok \in BOOLEAN :
       IF ok
         THEN /\ handles' = handles \ {h}
              /\ UNCHANGED release_failed
         ELSE /\ release_failed' = TRUE
              /\ UNCHANGED handles
  /\ pc' = next
  /\ UNCHANGED <<env, shellcode_size, sel, locals, threads, exc, failed,
                 local_regions, remote_regions, proc_state, live_procs,
                 exit_status, runs>>

\* line 261
WaitLocal == WaitForSingleObject("loc_wait", "loc_collect")

\* lines 263-264
GetExitCodeLocal == GetExitCodeThread("loc_collect", "loc_close")

\* lines 265-267: CloseHandle(thread); return exit_code.value
CloseLocal == CloseHandle("loc_close", "thread", "returned")

(* -------------------------- execute_injected -------------------------- *)
\* lines 274-276: find_host_process; its exceptions leave execute_injected
FindHostProcess ==
  /\ pc = "inj_find"
  /\ \E exists \in SUBSET Candidates(arch) :
       LET r == find_host_process(arch, machine, exists) IN
         /\ existing' = exists
         /\ IF r.err # "none"
              THEN /\ Raise("find_host_process", r.err, "raised")
                   /\ UNCHANGED host_path
              ELSE /\ host_path' = r.path
                   /\ pc' = "inj_spawn"
                   /\ UNCHANGED <<exc, failed>>
  /\ UNCHANGED <<env, shellcode_size, sel, ptr, remote_mem, written, copy_dest,
                 start_addr, exit_code, threads, trace, resources, exit_status, runs>>

\* CreateProcessW(host_path, ..., dwCreationFlags, ...): the primary thread of
\* the new process stays suspended iff CREATE_SUSPENDED is set; a failure
\* raises OSError, handled at `handler`
CreateProcessWith(dwCreationFlags, handler) ==
  /\ pc = "inj_spawn"
  /\ Call("CreateProcessW")
  /\ \E ok \in BOOLEAN :
       IF ok
         THEN /\ handles' = handles \cup {"pi.hProcess", "pi.hThread"}
              /\ proc_state' = "suspended"
              /\ primary_thread' = IF HasFlag(dwCreationFlags, CREATE_SUSPENDED)
                                   THEN "suspended" ELSE "running"
              /\ live_procs' = live_procs + 1
              /\ pc' = "inj_alloc"
              /\ UNCHANGED <<exc, failed>>
         ELSE /\ Raise("CreateProcessW", "OSError", handler)
              /\ UNCHANGED <<handles, proc_state, primary_thread, live_procs>>
  /\ UNCHANGED <<env, shellcode_size, sel, locals, thread_state, thread_status,
                 local_regions, remote_regions, release_failed, exit_status, runs>>

\* the host process is created with CREATE_NO_WINDOW in place of CREATE_SUSPENDED
CreateProcessW_NoWindow == CreateProcessWith(CREATE_NO_WINDOW, "raised")

\* the raise of line 299 is taken to be inside the try block
CreateProcessW_InTry == CreateProcessWith(CREATE_SUSPENDED, "fin_term")

\* lines 283-301: created with CREATE_SUSPENDED (line 291); the raise of line
\* 299 comes before the try block is entered, so no finally block runs
CreateProcessW == CreateProcessWith(CREATE_SUSPENDED, "raised")

\* VirtualAllocEx; a NULL result raises OSError, handled at `handler`
VirtualAllocExRaisingTo(handler) ==
  /\ pc = "inj_alloc"
  /\ Call("VirtualAllocEx")
  /\ \E p \in 0..MaxAddr :
       /\ remote_mem' = p
       /\ IF p = 0
            THEN /\ Raise("VirtualAllocEx", "OSError", handler)
                 /\ UNCHANGED remote_regions
            ELSE /\ remote_regions' = remote_regions + 1
                 /\ pc' = "inj_write"
                 /\ UNCHANGED <<exc, failed>>
  /\ UNCHANGED <<env, shellcode_size, sel, existing, host_path, ptr, written, copy_dest,
                 start_addr, exit_code, threads, handles, local_regions, proc_state,
                 live_procs, release_failed, exit_status, runs>>

\* the raise of line 312 leaves the function at once, without the finally block
VirtualAllocEx_NoFinally == VirtualAllocExRaisingTo("raised")

\* lines 306-312: the raise of line 312 is inside the try, so the finally block runs
VirtualAllocEx == VirtualAllocExRaisingTo("fin_term")

\* lines 318-326: WriteProcessMemory reports success and a byte count; only
\* the success flag is tested, written.value is printed
WriteProcessMemory ==
  /\ pc = "inj_write"
  /\ Call("WriteProcessMemory")
  /\ \E ok \in BOOLEAN, w \in 0..shellcode_size :
       /\ written' = w
       /\ copy_dest' = remote_mem
       /\ IF ok
            THEN /\ pc' = "inj_thread"
                 /\ UNCHANGED <<exc, failed>>
            ELSE Raise("WriteProcessMemory", "OSError", "fin_term")
  /\ UNCHANGED <<env, shellcode_size, sel, existing, host_path, ptr, remote_mem, start_addr,
                 exit_code, threads, resources, exit_status, runs>>

\* CreateRemoteThread at remote_mem; NULL raises OSError; `next` follows success
CreateRemoteThreadThen(next) ==
  /\ pc = "inj_thread"
  /\ Call("CreateRemoteThread")
  /\ \E ok \in BOOLEAN :
       IF ok
         THEN /\ handles' = handles \cup {"remote_thread"}
              /\ thread_state' = "running"
              /\ start_addr' = remote_mem
              /\ pc' = next
              /\ UNCHANGED <<exc, failed>>
         ELSE /\ Raise("CreateRemoteThread", "OSError", "fin_term")
              /\ UNCHANGED <<handles, thread_state, start_addr>>
  /\ UNCHANGED <<env, shellcode_size, sel, existing, host_path, ptr, remote_mem, written,
                 copy_dest, exit_code, thread_status, primary_thread, local_regions,
                 remote_regions, proc_state, live_procs, release_failed,
                 exit_status, runs>>

\* the exit status is collected without waiting for the thread
CreateRemoteThread_NoWait == CreateRemoteThreadThen("inj_collect")

\* lines 334-339, followed by the wait of line 342
CreateRemoteThread == CreateRemoteThreadThen("inj_wait")

\* line 342
WaitRemote == WaitForSingleObject("inj_wait", "inj_collect")

\* lines 348-349
GetExitCodeRemote == GetExitCodeThread("inj_collect", "inj_close")

\* lines 350-353: CloseHandle(remote_thread); return exit_code.value, which
\* runs the finally block first
CloseRemote == CloseHandle("inj_close", "remote_thread", "fin_term")

\* TerminateProcess(pi.hProcess, 0), first statement of the finally block; if
\* `checked`, a FALSE result raises OSError, otherwise it is not looked at
TerminateProcessChecking(checked) ==
  /\ pc = "fin_term"
  /\ Call("TerminateProcess")
  /\ \E ok \in BOOLEAN :
       IF ok
         THEN /\ proc_state' = "terminated"
              /\ live_procs' = live_procs - 1
              /\ remote_regions' = 0
              /\ thread_state' = IF thread_state = "running" THEN "killed"
                                 ELSE thread_state
              /\ primary_thread' = "killed"
              /\ pc' = "fin_close_thread"
              /\ UNCHANGED <<release_failed, exc, failed>>
         ELSE /\ release_failed' = TRUE
              /\ IF checked
                   THEN Raise("TerminateProcess", "OSError", "raised")
                   ELSE /\ pc' = "fin_close_thread"
                        /\ UNCHANGED <<exc, failed>>
              /\ UNCHANGED <<proc_state, live_procs, remote_regions, thread_state,
                             primary_thread>>
  /\ UNCHANGED <<env, shellcode_size, sel, locals, thread_status, handles,
                 local_regions, exit_status, runs>>

\* a failed TerminateProcess raises like the protocol steps do
TerminateProcess_Checked == TerminateProcessChecking(TRUE)

\* line 357: the result of TerminateProcess is discarded
TerminateProcess == TerminateProcessChecking(FALSE)

\* line 358
CloseThreadHandle == CloseHandle("fin_close_thread", "pi.hThread", "fin_close_proc")

\* line 359, last statement of the finally block; then the pending return or
\* exception continues
CloseProcessHandle ==
  CloseHandle("fin_close_proc", "pi.hProcess",
              IF exc = "none" THEN "returned" ELSE "raised")

(* ---------------------------- main, the end --------------------------- *)
\* the status is cut to its low byte on the way out
MainExit_LowByte ==
  /\ pc = "returned"
  /\ exit_status' = exit_code % 256
  /\ pc' = "done"
  /\ UNCHANGED <<env, shellcode_size, sel, locals, threads, exc, failed, trace,
                 resources, runs>>

\* lines 428-430: sys.exit(exit_code)
MainExit ==
  /\ pc = "returned"
  /\ exit_status' = exit_code
  /\ pc' = "done"
  /\ UNCHANGED <<env, shellcode_size, sel, locals, threads, exc, failed, trace,
                 resources, runs>>

\* lines 432-440: OSError (FileNotFoundError is one) and any other Exception
MainExcept ==
  /\ pc = "raised"
  /\ exit_status' = 1
  /\ pc' = "done"
  /\ UNCHANGED <<env, shellcode_size, sel, locals, threads, exc, failed, trace,
                 resources, runs>>

\* execute_shellcode_windows called again on the same image, by a caller that
\* took the previous call's return value or exception
Reinvoke ==
  /\ pc \in {"returned", "raised"}
  /\ runs < MaxRuns
  /\ pc' = "select"
  /\ path' = "none"
  /\ selections' = 0
  /\ started' = {}
  /\ existing' = {}
  /\ host_path' = ""
  /\ ptr' = 0
  /\ remote_mem' = 0
  /\ written' = 0
  /\ copy_dest' = 0
  /\ start_addr' = 0
  /\ exit_code' = 0
  /\ thread_state' = "none"
  /\ thread_status' = 0
  /\ primary_thread' = "none"
  /\ proc_state' = "none"
  /\ exc' = "none"
  /\ failed' = {}
  /\ trace' = <<>>
  /\ UNCHANGED <<env, shellcode_size, handles, local_regions, remote_regions,
                 live_procs, release_failed, exit_status, runs>>

Next ==
  \/ LoadShellcode
  \/ PlatformCheck
  \/ Select
  \/ VirtualAlloc
  \/ RtlMoveMemory
  \/ CreateThread
  \/ WaitLocal
  \/ GetExitCodeLocal
  \/ CloseLocal
  \/ FindHostProcess
  \/ CreateProcessW
  \/ VirtualAllocEx
  \/ WriteProcessMemory
  \/ CreateRemoteThread
  \/ WaitRemote
  \/ GetExitCodeRemote
  \/ CloseRemote
  \/ TerminateProcess
  \/ CloseThreadHandle
  \/ CloseProcessHandle
  \/ ThreadFinish
  \/ MainExit
  \/ MainExcept

\* one run of main()
Spec == Init /\ [][Next]_vars

NextRepeat == Next \/ Reinvoke

\* execute_shellcode_windows invoked up to MaxRuns times before main exits
SpecRepeat == Init /\ [][NextRepeat]_vars

(* ============================== claims ================================ *)
\* the kernel32 call `name` was made in this run
Called(name) == \E i \in 1..Len(trace) : trace[i] = name

\* CreateProcessW was called and succeeded in this run
SpawnSucceeded == Called("CreateProcessW") /\ "CreateProcessW" \notin failed

\* control has left execute_local / execute_injected
LeftFunction == pc \in {"returned", "raised", "done"}

Teardown == <<"TerminateProcess", "CloseHandle(pi.hThread)", "CloseHandle(pi.hProcess)">>

\* C1: once CreateProcessW has succeeded, whichever way execute_injected is
\* left (return, or a raise from VirtualAllocEx, WriteProcessMemory or
\* CreateRemoteThread), the last three calls made are TerminateProcess,
\* CloseHandle(pi.hThread) and CloseHandle(pi.hProcess).
C1_TeardownOnEveryExit ==
  (SpawnSucceeded /\ LeftFunction) =>
     /\ Len(trace) >= 4
     /\ SubSeq(trace, Len(trace) - 2, Len(trace)) = Teardown

C1_Witness ==
  /\ pc = "raised"
  /\ SpawnSucceeded
  /\ failed \cap {"VirtualAllocEx", "WriteProcessMemory", "CreateRemoteThread"} # {}
  /\ SubSeq(trace, Len(trace) - 2, Len(trace)) = Teardown

\* the side effects the order claim names
NamedEffects ==
  {"CreateProcessW", "VirtualAllocEx", "WriteProcessMemory", "CreateRemoteThread",
   "WaitForSingleObject", "GetExitCodeThread", "TerminateProcess",
   "CloseHandle(pi.hThread)", "CloseHandle(pi.hProcess)"}

IsNamedEffect(c) == c \in NamedEffects

SuccessOrder ==
  <<"CreateProcessW", "VirtualAllocEx", "WriteProcessMemory", "CreateRemoteThread",
    "WaitForSingleObject", "GetExitCodeThread", "TerminateProcess",
    "CloseHandle(pi.hThread)", "CloseHandle(pi.hProcess)">>

\* execute_injected returned a value
InjectedReturned == path = "injected" /\ exc = "none" /\ pc \in {"returned", "done"}

\* C2: in a run of execute_injected that returns, the named side effects are
\* spawn, allocate, write, launch, await, collect, terminate, close thread
\* handle, close process handle, in this order and once each (the only other
\* call made is the CloseHandle of the remote thread's handle).
C2_SuccessOrder ==
  InjectedReturned =>
     /\ SelectSeq(trace, IsNamedEffect) = SuccessOrder
     /\ \A i \in 1..Len(trace) :
          trace[i] \in NamedEffects \cup {"CloseHandle(remote_thread)"}

C2_Witness == InjectedReturned /\ pc = "done" /\ failed = {} /\ Len(trace) = 10

\* C3: execute_local has released the region VirtualAlloc gave it by the time
\* it is left, after a successful run and after a failed CreateThread.
C3_LocalRegionReleased ==
  (path = "local" /\ pc \in {"returned", "raised"}) => local_regions = 0

\* the target named on the command line, and its CPU family and bit-width
TargetName(a) ==
  CASE a \in {"x86", "i386"} -> "x86"
    [] a \in {"amd64", "x64", "x86_64"} -> "amd64"
    [] a \in {"arm64", "aarch64"} -> "arm64"

HostName(m) ==
  CASE m = "AMD64" -> "amd64"
    [] m = "ARM64" -> "arm64"
    [] m = "x86" -> "x86"

Family(a) == IF a = "arm64" THEN "arm" ELSE "x86"

BitWidth(a) == IF a = "x86" THEN 32 ELSE 64

OnWindows == system = "Windows"

SameFamily == Family(TargetName(arch)) = Family(HostName(machine))

\* C4: on Windows, a target of another CPU family than the host's is run by
\* the injection path, never inside the loader's own process, whatever the
\* interpreter's bit-width.
C4_CrossFamilyInjects ==
  (OnWindows /\ ~SameFamily /\ path # "none") =>
     (path = "injected" /\ "local" \notin started)

\* CreateRemoteThread was called and returned a thread handle in this run
RemoteThreadCreated ==
  Called("CreateRemoteThread") /\ "CreateRemoteThread" \notin failed

\* C5: a remote thread is created only when the byte count WriteProcessMemory
\* reported equals the image length; otherwise the run fails.
C5_PartialWriteFails ==
  /\ RemoteThreadCreated => written = shellcode_size
  /\ (Called("WriteProcessMemory") /\ written # shellcode_size /\ LeftFunction)
        => exc # "none"

\* C6: on Windows with target and host of one CPU family, a run evaluates the
\* choice once and enters exactly one path: the in-process one when the
\* interpreter's bit-width equals the target's, the injection one otherwise.
C6_OnePathByBitWidth ==
  (OnWindows /\ SameFamily) =>
     /\ selections <= 1
     /\ (path = "none" <=> selections = 0)
     /\ (path = "none" <=> started = {})
     /\ path # "none" =>
          /\ started = {path}
          /\ path = IF python_bits = BitWidth(TargetName(arch))
                      THEN "local" ELSE "injected"

C6_Witness ==
  /\ OnWindows /\ SameFamily
  /\ python_bits # BitWidth(TargetName(arch))
  /\ path = "injected"
  /\ pc = "done"

\* a second witness of the same claim, for the in-process choice
C6_WitnessLocal ==
  /\ OnWindows /\ SameFamily
  /\ python_bits = BitWidth(TargetName(arch))
  /\ path = "local"
  /\ pc = "done"

\* nothing was acquired or started
NothingAttempted ==
  /\ trace = <<>>
  /\ handles = {}
  /\ local_regions = 0
  /\ remote_regions = 0
  /\ live_procs = 0
  /\ thread_state = "none"
  /\ primary_thread = "none"
  /\ path = "none"

\* C7: on a host that is not Windows the run ends with a non-zero exit status
\* for every target, and no allocation, process creation or thread creation
\* is attempted.
C7_NonWindowsRejected ==
  ~OnWindows =>
     /\ NothingAttempted
     /\ pc \in {"load", "platform", "done"}
     /\ pc = "done" => exit_status = 1

C7_Witness ==
  /\ ~OnWindows
  /\ pc = "done"
  /\ shellcode_size > 0
  /\ "platform" \in failed
  /\ exit_status = 1

\* the failures inside the loader that the exit-status claim lists
InternalFailures ==
  {"load_shellcode", "platform", "find_host_process", "CreateProcessW",
   "VirtualAlloc", "VirtualAllocEx", "WriteProcessMemory", "CreateThread",
   "CreateRemoteThread"}

\* the thread ran to its end, the wait saw it and its status was collected
ExecutionCompleted ==
  /\ failed \cap InternalFailures = {}
  /\ thread_state = "done"
  /\ failed \cap {"WaitForSingleObject", "GetExitCodeThread"} = {}

\* C8: when the loader has exited, its exit status is the status collected
\* from the thread, unchanged, if execution completed, and 1 after each of the
\* listed loader-internal failures.
C8_ExitStatus ==
  pc = "done" =>
     /\ ExecutionCompleted => exit_status = thread_status
     /\ failed \cap InternalFailures # {} => exit_status = 1

C8_Witness ==
  /\ pc = "done"
  /\ ExecutionCompleted
  /\ thread_status = 259
  /\ exit_status = 259

\* a second witness of the same claim, for a loader-internal failure
C8_WitnessFailure ==
  /\ pc = "done"
  /\ "WriteProcessMemory" \in failed
  /\ exit_status = 1

\* every step of the two protocols that can fail
ProtocolSteps ==
  InternalFailures \cup {"WaitForSingleObject", "GetExitCodeThread"}

\* C9: a run in which a protocol step failed, a failed wait or a failed
\* exit-status collection included, ends with a non-zero exit status.
C9_NoFailureSwallowed ==
  (pc = "done" /\ failed \cap ProtocolSteps # {}) => exit_status # 0

\* C10: whenever an invocation of the protocol is over, and no release call
\* has itself failed, the loader holds no open handle, no live memory region
\* and no live spawned process: the counts are those before the first
\* invocation.
C10_NoLeak ==
  (pc \in {"returned", "raised"} /\ ~release_failed) =>
     /\ handles = {}
     /\ local_regions = 0
     /\ live_procs = 0

\* find_host_process has been called in this run
HostSearched == path = "injected" /\ pc # "inj_find"

\* the candidate of the target that comes first in list order among those on disk
FirstOnDisk ==
  LET l == CandidateList(arch)
      i == CHOOSE k \in 1..Len(l) :
             l[k] \in existing /\ \A j \in 1..(k - 1) : l[j] \notin existing
  IN  l[i]

\* the run failed in find_host_process: no kernel32 call, nothing acquired
FailedBeforeSpawn ==
  /\ "find_host_process" \in failed
  /\ trace = <<>>
  /\ handles = {}
  /\ live_procs = 0
  /\ remote_regions = 0
  /\ proc_state = "none"
  /\ pc \in {"raised", "done"}
  /\ pc = "done" => exit_status = 1

\* the host executable handed to CreateProcessW is the first candidate on disk
SpawnsFirstOnDisk ==
  /\ "find_host_process" \notin failed
  /\ host_path = FirstOnDisk
  /\ pc # "inj_spawn" => trace[1] = "CreateProcessW"

\* a 32-bit x86 OS asked for another target: line 137
Os32OtherTarget == HostName(machine) = "x86" /\ TargetName(arch) # "x86"

\* C11 as stated: in the injection path, with no candidate host executable on
\* disk the run fails before CreateProcessW with nothing acquired; otherwise
\* the first existing candidate in list order is the one spawned.
C11_HostProcessChoice ==
  HostSearched =>
     IF existing = {} THEN FailedBeforeSpawn ELSE SpawnsFirstOnDisk

\* C11 amended: as stated, except that on a 32-bit x86 OS a target other than
\* x86 fails before CreateProcessW whether or not a candidate is on disk.
C11_HostProcessChoiceAmended ==
  HostSearched =>
     IF existing = {} \/ Os32OtherTarget
       THEN FailedBeforeSpawn
       ELSE SpawnsFirstOnDisk

C11_Witness ==
  /\ HostSearched
  /\ Cardinality(existing) = 2
  /\ host_path = CandidateList(arch)[1]
  /\ SpawnSucceeded

\* further witnesses of the same claim: no candidate, and only the second one
C11_WitnessNone == HostSearched /\ existing = {} /\ ~Os32OtherTarget /\ pc = "done"

C11_WitnessSecond ==
  /\ HostSearched
  /\ existing = {CandidateList(arch)[2]}
  /\ host_path = CandidateList(arch)[2]
  /\ SpawnSucceeded

\* position in the run's trace of the first call of `name`, 0 if not called
FirstCall(name) ==
  IF Called(name) THEN CHOOSE i \in 1..Len(trace) :
                         trace[i] = name /\ \A j \in 1..(i - 1) : trace[j] # name
  ELSE 0

\* WriteProcessMemory was called and reported success in this run
WriteSucceeded ==
  Called("WriteProcessMemory") /\ "WriteProcessMemory" \notin failed

\* C12: the host process is created suspended and its primary thread never
\* runs; a thread exists in the spawned process only once WriteProcessMemory
\* has returned success, and it is the one CreateRemoteThread created.
C12_NeverResumed ==
  path = "injected" =>
     /\ primary_thread \in {"none", "suspended", "killed"}
     /\ ~Called("ResumeThread")
     /\ (SpawnSucceeded /\ proc_state # "terminated") =>
           (proc_state = "suspended" /\ primary_thread = "suspended")
     /\ thread_state # "none" =>
           /\ WriteSucceeded
           /\ RemoteThreadCreated
           /\ FirstCall("WriteProcessMemory") < FirstCall("CreateRemoteThread")

C12_Witness ==
  /\ path = "injected"
  /\ thread_state = "done"
  /\ primary_thread = "suspended"
  /\ pc = "inj_close"

\* calls that act on the spawned process or on the handles CreateProcessW returns
UsesSpawnedProcess ==
  {"VirtualAllocEx", "WriteProcessMemory", "CreateRemoteThread", "TerminateProcess",
   "CloseHandle(pi.hThread)", "CloseHandle(pi.hProcess)"}

\* C18: after a failed CreateProcessW no allocation, write, thread creation or
\* teardown call is made; such calls are made only after a successful spawn.
C18_NoTeardownWithoutSpawn ==
  /\ "CreateProcessW" \in failed =>
        /\ trace = <<"CreateProcessW">>
        /\ pc \in {"raised", "done"}
        /\ handles = {} /\ live_procs = 0 /\ proc_state = "none"
  /\ \A i \in 1..Len(trace) : trace[i] \in UsesSpawnedProcess => SpawnSucceeded

C18_Witness ==
  /\ "CreateProcessW" \in failed
  /\ pc = "done"
  /\ exit_status = 1
  /\ trace = <<"CreateProcessW">>

\* the wait of line 261 or 342 has returned in this run
WaitReturned == Called("WaitForSingleObject")

\* C13: the wait has no timeout, so the loader is past it (at collect,
\* teardown or exit) only when the awaited thread has run to its end.
C13_PastWaitOnlyWhenThreadDone ==
  WaitReturned => thread_state = "done"

\* the same with the wait's own failure set aside: what the code does when
\* WaitForSingleObject reports the thread's end
PastSuccessfulWaitThreadDone ==
  (WaitReturned /\ "WaitForSingleObject" \notin failed) => thread_state = "done"

\* a thread was started by this run
ThreadStarted == thread_state # "none"

\* C14: in both paths the thread starts at the base of the region this run
\* allocated in the process the thread runs in and copied the image to (entry
\* offset 0), never at another address.
C14_StartAtCopiedRegion ==
  ThreadStarted =>
     /\ start_addr # 0
     /\ start_addr = copy_dest + 0
     /\ path = "local" =>
           /\ start_addr = ptr + 0
           /\ FirstCall("VirtualAlloc") = 1
           /\ FirstCall("RtlMoveMemory") = 2
           /\ FirstCall("CreateThread") = 3
           /\ ~Called("VirtualAllocEx")
     /\ path = "injected" =>
           /\ start_addr = remote_mem + 0
           /\ 0 < FirstCall("VirtualAllocEx")
           /\ FirstCall("VirtualAllocEx") < FirstCall("WriteProcessMemory")
           /\ FirstCall("WriteProcessMemory") < FirstCall("CreateRemoteThread")
           /\ ~Called("VirtualAlloc")

C14_Witness ==
  /\ path = "local"
  /\ ThreadStarted
  /\ ptr = MaxAddr
  /\ start_addr = MaxAddr

\* a second witness of the same claim, for the injection path
C14_WitnessInjected ==
  /\ path = "injected"
  /\ ThreadStarted
  /\ remote_mem = MaxAddr
  /\ start_addr = MaxAddr

\* the input file exists and holds no bytes
EmptyFile == file_exists /\ file_len = 0

\* C15: whenever an execution path has been started the image is non-empty,
\* so the entry offset 0 is below its length; an empty input file ends the
\* run with exit status 1 and nothing attempted.
C15_NonEmptyImage ==
  /\ path # "none" => (shellcode_size > 0 /\ shellcode_size = file_len)
  /\ EmptyFile =>
        /\ pc \in {"load", "done"}
        /\ NothingAttempted
        /\ pc = "done" => (exit_status = 1 /\ exc = "ValueError")

C15_Witness ==
  /\ EmptyFile
  /\ OnWindows
  /\ pc = "done"
  /\ exit_status = 1
  /\ "load_shellcode" \in failed

\* the steps of the injection protocol that raise when they fail
InjectionSteps == {"VirtualAllocEx", "WriteProcessMemory", "CreateRemoteThread"}

\* C16: when a step of the injection protocol failed and a teardown call
\* (TerminateProcess or CloseHandle) failed too, the exception that leaves
\* execute_injected is the OSError of that step, the only raise of the run,
\* and all three teardown calls were made.
C16_TeardownFailureNotMasking ==
  (failed \cap InjectionSteps # {} /\ release_failed /\ LeftFunction) =>
     /\ exc = "OSError"
     /\ Cardinality(failed) = 1
     /\ failed \subseteq InjectionSteps
     /\ SubSeq(trace, Len(trace) - 2, Len(trace)) = Teardown
     /\ pc = "done" => exit_status = 1

C16_Witness ==
  /\ pc = "raised"
  /\ failed = {"WriteProcessMemory"}
  /\ release_failed
  /\ proc_state = "suspended"
  /\ handles = {"pi.hProcess"}
  /\ SubSeq(trace, Len(trace) - 2, Len(trace)) = Teardown

\* the kernel32 calls that are steps of the injection protocol, teardown apart
InjectionProtocolCalls ==
  {"CreateProcessW", "VirtualAllocEx", "WriteProcessMemory", "CreateRemoteThread",
   "WaitForSingleObject", "GetExitCodeThread"}

\* no step of the injection protocol is called after the call of `step`
NothingAfter(step) ==
  \A i \in 1..Len(trace) : i > FirstCall(step) => trace[i] \notin InjectionProtocolCalls

\* C17: the injection protocol is fail-stop: once one of its steps has
\* failed, no later step of the protocol is performed, only teardown.
C17_FailStop ==
  path = "injected" =>
     \A step \in failed \cap InjectionProtocolCalls : NothingAfter(step)

\* the cases the claim lists: a failed allocation, write or thread creation
FailStopAfterRaisingStep ==
  path = "injected" =>
     \A step \in failed \cap (InjectionSteps \cup {"CreateProcessW"}) :
        NothingAfter(step)

====
